---- MODULE Spec2Model ----
(***************************************************************************)
(* The two test harnesses of the fadors99 compiler:                        *)
(*   verify_coff.py              ("coff": compile with --obj, run the exe) *)
(*   tests/test_asm_execution.py ("asm": compile with --masm, then ml64,   *)
(*                                link, run)                               *)
(* One run of one harness is one behaviour; the variable harness says      *)
(* which of the two programs is running.                                   *)
(*                                                                         *)
(* Python integers are unbounded and a Windows exit status uses all 32     *)
(* bits, so an integer n is kept as the pair <<hi, lo>> with               *)
(* n = hi * 2^16 + lo and 0 <= lo < 2^16 (hi is signed).                   *)
(***************************************************************************)
EXTENDS Integers, Sequences, FiniteSets

VARIABLES
    harness,          \* "coff" or "asm": which script runs
    vcvarsExists,     \* environment: vcvars64.bat exists at vcvars_path
    output,           \* environment: the lines "vcvars64.bat && set" prints
    environ,          \* os.environ
    run,              \* 1 in the first run of the script, 2 in a second one
    first,            \* what the first run reported, once it is over
    artifacts,        \* per test: who last wrote each artifact, over both runs
    memo,             \* per test and tool: the input it got, what it answered
    compilerPresent,  \* environment: build\Release\fadors99.exe exists
    assemblerPresent, \* environment: ml64 can be found on PATH
    linkerPresent,    \* environment: link can be found on PATH
    tests,            \* coff: the tests list; asm: what glob("tests/*.c") returns
    pc,               \* position of the script
    idx,              \* number of entries of tests the for loop has taken
    fs,               \* the artifacts of the current test that exist on disk
    stages,           \* the child processes launched for the current test
    res,              \* returncode of the last child process that ran
    actual_code,      \* coff: the normalised exit code of the last execution
    results,          \* coff: the results list
    passed,           \* asm: passed
    total,            \* asm: total
    log,              \* asm: one entry per run_test call that returned
    summary,          \* the summary lines have been printed
    exitStatus        \* <<>> while running, <<s>> once the process has exited

vars == <<harness, vcvarsExists, output, environ, run, first, artifacts, memo,
         compilerPresent, assemblerPresent, linkerPresent, tests, pc,
          idx, fs, stages, res, actual_code, results, passed, total, log,
          summary, exitStatus>>

(* Bounds of the model. *)
MaxTests == 2
MaxSmallCode == 1
MaxLines == 2
MaxLineLen == 3

-----------------------------------------------------------------------------
(* Wide integers. *)

Limb == 65536

ToWide(n) == <<n \div Limb, n % Limb>>

\* x & 0xFFFFFFFF
And32(x) == <<x[1] % Limb, x[2]>>

\* x > 0x7FFFFFFF, 0x7FFFFFFF being <<32767, 65535>>
GtInt32Max(x) == x[1] > 32767

\* x - 0x100000000
Sub2p32(x) == <<x[1] - Limb, x[2]>>

\* a mask of 16 bits instead of 32
NormalizeMask16(returncode) ==
    LET a == <<0, returncode[2]>>
    IN  IF GtInt32Max(a) THEN Sub2p32(a) ELSE a

\* the reinterpretation as a negative value left out
NormalizeNoWrap(returncode) == And32(returncode)

Normalize(returncode) ==
    LET a == And32(returncode)
    IN  IF GtInt32Max(a) THEN Sub2p32(a) ELSE a

-----------------------------------------------------------------------------
(* Paths.  A path is [dir, stem, ext]; os.path.basename drops dir.  The     *)
(* artifacts of a test differ from its source path in ext alone, so the    *)
(* disk is kept as the set fs of the extensions present for the current    *)
(* test: no stage reads or writes a file of another test.                  *)

Path(stem) == [dir |-> "tests", stem |-> stem, ext |-> "c"]

Basename(p) == [stem |-> p.stem, ext |-> p.ext]

\* key in c_file, for a key that is a whole stem
Contains(c_file, key) == c_file.stem = key

-----------------------------------------------------------------------------
(* The tables of the two scripts. *)

CoffTests ==
    << <<Path("01_return"), 42>>,      <<Path("02_arithmetic"), 7>>,
       <<Path("03_variables"), 30>>,   <<Path("04_if"), 100>>,
       <<Path("06_while"), 10>>,       <<Path("07_function"), 123>>,
       <<Path("12_string"), 72>>,      <<Path("14_params"), 10>>,
       <<Path("15_nested_calls"), 10>>, <<Path("19_array"), 100>>,
       <<Path("20_switch"), 120>>,     <<Path("21_enum"), 6>>,
       <<Path("22_union"), 42>>,       <<Path("23_pointer_math"), 0>> >>

test_whitelist ==
    { [stem |-> s, ext |-> "c"] :
        s \in {"01_return", "07_function", "11_nested_struct", "17_for",
               "18_typedef", "19_array", "20_switch", "21_enum", "22_union",
               "23_pointer_math"} }

\* the chain of "if <key> in c_file and ret_code != <code>" of run_test
ExpectedChain ==
    << <<"01_return", 42>>, <<"07_function", 123>>, <<"17_for", 45>>,
       <<"18_typedef", 42>>, <<"19_array", 100>>, <<"20_switch", 120>>,
       <<"21_enum", 6>>, <<"22_union", 42>>, <<"23_pointer_math", 0>> >>

\* the tests directory: the sources either script names
TestsDir ==
    << Path("01_return"), Path("02_arithmetic"), Path("03_variables"),
       Path("04_if"), Path("06_while"), Path("07_function"),
       Path("11_nested_struct"), Path("12_string"), Path("14_params"),
       Path("15_nested_calls"), Path("17_for"), Path("18_typedef"),
       Path("19_array"), Path("20_switch"), Path("21_enum"),
       Path("22_union"), Path("23_pointer_math") >>

\* the runs of at most MaxTests (and at least least) consecutive entries of s
Slices(s, least) ==
    { SubSeq(s, q[1], q[1] + q[2] - 1) :
        q \in { r \in (1..Len(s)) \X (least..MaxTests) :
                  r[1] + r[2] - 1 <= Len(s) } }

-----------------------------------------------------------------------------
(* The environment: what a child process can do. *)

Zero == ToWide(0)

\* exit statuses of a test program that was started: small codes, the code
\* the test expects, the same code with bit 16 set, 0xC0000005, the ends of
\* the signed range, 0xFFFFFFFF, and -11 (POSIX: killed by SIGSEGV)
ExitStatuses(e) ==
    { ToWide(c) : c \in 0..MaxSmallCode } \cup
    { ToWide(e), <<1, e>>, <<49152, 5>>, <<32767, 65535>>, <<32768, 0>>,
      <<65535, 65535>>, <<-1, 65525>> }

\* status of the shell when it cannot start the command (cmd: 1, sh: 126, 127)
ShellLaunchStatuses == { ToWide(1), ToWide(126), ToWide(127) }

\* exit statuses of a tool that ran: success or failure
ToolStatuses == { Zero, ToWide(1) }

\* the files a tool may write, as extensions of the current test's path
CompilerWrites == IF harness = "coff" THEN {"obj", "exe"} ELSE {"asm", "obj", "exe"}

Outcome(status) == IF status = Zero THEN "exit0" ELSE "nonzero"

Stage(kind, outcome) == [kind |-> kind, outcome |-> outcome]

Kinds(s) == [i \in 1..Len(s) |-> s[i].kind]

Last(s) == s[Len(s)]

-----------------------------------------------------------------------------
(* The environment bootstrap of both scripts (verify_coff lines 32-38,     *)
(* test_asm_execution lines 119-125).  A line, a key and a value are       *)
(* sequences of characters; os.environ is a function from keys to values.  *)

Chars == {"A", "="}

\* "=" in line
HasEq(line) == \E i \in 1..Len(line) : line[i] = "="

\* the index of the first "=" of a line that holds one
FirstEq(line) ==
    CHOOSE i \in 1..Len(line) :
        line[i] = "=" /\ \A j \in 1..(i - 1) : line[j] # "="

\* the index of the last "=" of a line that holds one
LastEq(line) ==
    CHOOSE i \in 1..Len(line) :
        line[i] = "=" /\ \A j \in (i + 1)..Len(line) : line[j] # "="

\* line.rsplit("=", 1) in place of line.split("=", 1)
SplitAtLast(line) ==
    <<SubSeq(line, 1, LastEq(line) - 1), SubSeq(line, LastEq(line) + 1, Len(line))>>

\* key, value = line.split("=", 1)
Split(line) ==
    <<SubSeq(line, 1, FirstEq(line) - 1), SubSeq(line, FirstEq(line) + 1, Len(line))>>

\* os.environ.setdefault(key, value) in place of the assignment
SetItemKeep(env, key, value) ==
    [k \in DOMAIN env \cup {key} |-> IF k \in DOMAIN env THEN env[k] ELSE value]

\* os.environ[key] = value
SetItem(env, key, value) ==
    [k \in DOMAIN env \cup {key} |-> IF k = key THEN value ELSE env[k]]

\* the for loop of lines 35-38 over the lines that are left
RECURSIVE MergeLines(_, _)
MergeLines(env, lines) ==
    IF lines = <<>> THEN env
    ELSE LET line == Head(lines)
         IN  MergeLines(IF HasEq(line)
                        THEN SetItem(env, Split(line)[1], Split(line)[2])
                        ELSE env,
                        Tail(lines))

\* lines 33-38
Bootstrap(exists, lines, env) == IF exists THEN MergeLines(env, lines) ELSE env

\* the sequences over S of length at most n
RECURSIVE Strings(_, _)
Strings(S, n) ==
    IF n = 0 THEN {<<>>}
    ELSE LET shorter == Strings(S, n - 1)
         IN  shorter \cup {Append(s, c) : s \in shorter, c \in S}

\* the lines "set" can print: a name is never empty, so no line starts with "="
Lines == {l \in Strings(Chars, MaxLineLen) : l = <<>> \/ l[1] # "="}

\* the output of the bootstrap command
Outputs == Strings(Lines, MaxLines)

\* os.environ when the script starts: some names set to the value "A"
Environs == UNION {[K -> {<<"A">>}] : K \in SUBSET {<<"A">>, <<"A", "A">>}}

-----------------------------------------------------------------------------
(* Two runs in succession.  The files of a test outlive the run; each file *)
(* is known by who wrote it last: the compiler, the assembler, the linker, *)
(* or nobody since before the first run ("stale").                         *)

Exts == {"asm", "obj", "exe"}

StageKinds == {"Compile", "Assemble", "Link", "Execute"}

NoFiles == [e \in Exts |-> "none"]

NoAnswer == [seen |-> FALSE, input |-> "none", outcome |-> "none",
             res |-> Zero, wrote |-> {}]

NoReport == [results |-> <<>>, log |-> <<>>, passed |-> 0, total |-> 0,
             summary |-> FALSE, exitStatus |-> <<>>]

\* what a run shows: the table or the lines it printed, the counts, the
\* summary and the exit status
Report == [results |-> results, log |-> log, passed |-> passed,
           total |-> total, summary |-> summary, exitStatus |-> exitStatus]

\* the environment a script inherits from the shell that starts it
ParentEnviron == [k \in {<<"A">>} |-> <<"A">>]

\* the script's own state when the interpreter starts it
Fresh ==
    /\ pc = "start"
    /\ idx = 0
    /\ fs = {}
    /\ stages = <<>>
    /\ res = Zero
    /\ actual_code = Zero
    /\ results = <<>>
    /\ passed = 0
    /\ total = 0
    /\ log = <<>>
    /\ summary = FALSE
    /\ exitStatus = <<>>

-----------------------------------------------------------------------------
(* State after start-up of the interpreter, before main() runs. *)

Init ==
    /\ harness \in {"coff", "asm"}
    /\ vcvarsExists = TRUE
    /\ output = << <<"A", "=">>, <<"A", "A", "=", "A">> >>
    /\ environ = ParentEnviron
    /\ compilerPresent \in BOOLEAN
    /\ assemblerPresent \in (IF harness = "asm" THEN BOOLEAN ELSE {TRUE})
    /\ linkerPresent \in (IF harness = "asm" THEN BOOLEAN ELSE {TRUE})
    /\ tests \in (IF harness = "coff" THEN Slices(CoffTests, 1)
                                      ELSE Slices(TestsDir, 0))
    /\ Fresh
    /\ run = 1
    /\ first = NoReport
    /\ artifacts = [i \in 1..Len(tests) |-> NoFiles]
    /\ memo = [i \in 1..Len(tests) |-> [k \in StageKinds |-> NoAnswer]]

-----------------------------------------------------------------------------
(* verify_coff.py *)

test_path == tests[idx][1]
expected_code == tests[idx][2]
name == Basename(test_path)

Status(kind, code) == [kind |-> kind, code |-> code]

\* the check of lines 59-62 left out
CompileVerdictCoffNoExeCheck(returncode, exeExists) ==
    IF returncode # Zero THEN "FAIL (Comp)" ELSE "ok"

\* lines 52-62: what the script makes of the compiler's run
CompileVerdictCoff(returncode, exeExists) ==
    IF returncode # Zero THEN "FAIL (Comp)"
    ELSE IF ~exeExists THEN "FAIL (EXE missing)"
    ELSE "ok"

\* lines 71-80
Judge(actual, expected) ==
    IF actual = ToWide(expected) THEN Status("PASS", Zero)
                                 ELSE Status("FAIL (Got)", actual)

\* lines 85-96
ExitCodeCoff(rs) ==
    IF \A i \in 1..Len(rs) : rs[i][2].kind = "PASS" THEN 0 ELSE 1

\* lines 11-44: the table, the environment, results = []
StartCoff ==
    /\ harness = "coff"
    /\ pc = "start"
    /\ environ' = Bootstrap(vcvarsExists, output, environ)
    /\ pc' = "loop"
    /\ results' = <<>>
    /\ UNCHANGED <<harness, vcvarsExists, output, compilerPresent, assemblerPresent, linkerPresent,
                   tests, idx, fs, stages, res, actual_code, passed, total,
                   log, summary, exitStatus>>

\* lines 46-48: the for statement takes the next test or leaves the loop.
\* fs becomes what is on disk of this test's artifacts before its stages run.
LoopCoff ==
    /\ harness = "coff"
    /\ pc = "loop"
    /\ \/ /\ idx < Len(tests)
          /\ idx' = idx + 1
          /\ stages' = <<>>
          /\ fs' \in SUBSET CompilerWrites
          /\ pc' = "compile"
       \/ /\ idx = Len(tests)
          /\ pc' = "summary"
          /\ UNCHANGED <<idx, stages, fs>>
    /\ UNCHANGED <<harness, vcvarsExists, output, environ, compilerPresent, assemblerPresent, linkerPresent,
                   tests, res, actual_code, results, passed, total, log,
                   summary, exitStatus>>

\* the branch of lines 59-62 leaving the loop body without results.append
CompileCoffNoRecord ==
    /\ harness = "coff"
    /\ pc = "compile"
    /\ \E status \in (IF compilerPresent THEN ToolStatuses ELSE ShellLaunchStatuses),
          written \in SUBSET CompilerWrites :
          LET disk == IF compilerPresent THEN fs \cup written ELSE fs
              verdict == CompileVerdictCoff(status, "exe" \in disk)
          IN  /\ res' = status
              /\ fs' = disk
              /\ stages' = Append(stages,
                     Stage("Compile", IF compilerPresent THEN Outcome(status)
                                                         ELSE "notfound"))
              /\ pc' = IF verdict = "ok" THEN "run" ELSE "loop"
              /\ results' = IF verdict = "FAIL (Comp)"
                            THEN Append(results, <<name, Status(verdict, Zero)>>)
                            ELSE results
    /\ UNCHANGED <<harness, vcvarsExists, output, environ, compilerPresent, assemblerPresent, linkerPresent,
                   tests, idx, actual_code, passed, total, log, summary,
                   exitStatus>>

\* lines 50-62: run the compiler through the shell, check its status, then
\* the executable
CompileCoff ==
    /\ harness = "coff"
    /\ pc = "compile"
    /\ \E status \in (IF compilerPresent THEN ToolStatuses ELSE ShellLaunchStatuses),
          written \in SUBSET CompilerWrites :
          LET disk == IF compilerPresent THEN fs \cup written ELSE fs
              verdict == CompileVerdictCoff(status, "exe" \in disk)
          IN  /\ res' = status
              /\ fs' = disk
              /\ stages' = Append(stages,
                     Stage("Compile", IF compilerPresent THEN Outcome(status)
                                                         ELSE "notfound"))
              /\ IF verdict = "ok"
                 THEN /\ pc' = "run"
                      /\ UNCHANGED results
                 ELSE /\ pc' = "loop"
                      /\ results' = Append(results, <<name, Status(verdict, Zero)>>)
    /\ UNCHANGED <<harness, vcvarsExists, output, environ, compilerPresent, assemblerPresent, linkerPresent,
                   tests, idx, actual_code, passed, total, log, summary,
                   exitStatus>>

\* the executable removed once it has been run
ExecuteCoffCleanup ==
    /\ harness = "coff"
    /\ pc = "run"
    /\ \E launch \in {"ran", "oserror"} :
       \E status \in (IF launch = "ran" THEN ExitStatuses(expected_code)
                                        ELSE ShellLaunchStatuses) :
          /\ res' = status
          /\ stages' = Append(stages, Stage("Execute", launch))
          /\ actual_code' = Normalize(status)
          /\ results' = Append(results,
                 <<name, Judge(Normalize(status), expected_code)>>)
    /\ pc' = "loop"
    /\ fs' = fs \ {"exe"}
    /\ UNCHANGED <<harness, vcvarsExists, output, environ, compilerPresent, assemblerPresent, linkerPresent,
                   tests, idx, passed, total, log, summary, exitStatus>>

\* lines 64-80: run the executable through the shell, normalise, compare
ExecuteCoff ==
    /\ harness = "coff"
    /\ pc = "run"
    /\ \E launch \in {"ran", "oserror"} :
       \E status \in (IF launch = "ran" THEN ExitStatuses(expected_code)
                                        ELSE ShellLaunchStatuses) :
          /\ res' = status
          /\ stages' = Append(stages, Stage("Execute", launch))
          /\ actual_code' = Normalize(status)
          /\ results' = Append(results,
                 <<name, Judge(Normalize(status), expected_code)>>)
    /\ pc' = "loop"
    /\ UNCHANGED <<harness, vcvarsExists, output, environ, compilerPresent, assemblerPresent, linkerPresent,
                   tests, idx, fs, passed, total, log, summary, exitStatus>>

\* lines 82-96
SummaryCoff ==
    /\ harness = "coff"
    /\ pc = "summary"
    /\ summary' = TRUE
    /\ exitStatus' = <<ExitCodeCoff(results)>>
    /\ pc' = "exited"
    /\ UNCHANGED <<harness, vcvarsExists, output, environ, compilerPresent, assemblerPresent, linkerPresent,
                   tests, idx, fs, stages, res, actual_code, results, passed,
                   total, log>>

-----------------------------------------------------------------------------
(* tests/test_asm_execution.py *)

c_file == tests[idx]

Entry(file, line, ret) == [file |-> file, line |-> line, ret |-> ret]

\* the compiler's status checked as well as the .asm file
CompileVerdictAsmStrict(returncode, asmExists) ==
    IF returncode # Zero \/ ~asmExists THEN "FAILED: ASM file not created"
    ELSE "ok"

\* lines 21-36: the compiler's status is dropped, the .asm file decides
CompileVerdictAsm(returncode, asmExists) ==
    IF ~asmExists THEN "FAILED: ASM file not created" ELSE "ok"

\* CalledProcessError of the assembler swallowed, as the compiler's is
AssembleVerdictLenient(outcome) ==
    IF outcome = "notfound" THEN "SKIPPED: ml not found in PATH" ELSE "ok"

\* a missing assembler reported like a failed assembly
AssembleVerdictNoSkip(outcome) ==
    IF outcome = "exit0" THEN "ok" ELSE "FAILED: Assembly"

\* lines 40-48
AssembleVerdict(outcome) ==
    CASE outcome = "notfound" -> "SKIPPED: ml not found in PATH"
      [] outcome = "nonzero"  -> "FAILED: Assembly"
      [] OTHER                -> "ok"

\* a failed link not noticed
LinkVerdictLenient(outcome) ==
    IF outcome = "notfound" THEN "Traceback: FileNotFoundError" ELSE "ok"

\* lines 54-58: only CalledProcessError is caught
LinkVerdict(outcome) ==
    CASE outcome = "notfound" -> "Traceback: FileNotFoundError"
      [] outcome = "nonzero"  -> "FAILED: Linking"
      [] OTHER                -> "ok"

\* a file the chain does not name held to exit code 0
ChainFailsDefaultZero(file, ret_code) ==
    \/ \E i \in 1..Len(ExpectedChain) :
          /\ Contains(file, ExpectedChain[i][1])
          /\ ret_code # ToWide(ExpectedChain[i][2])
    \/ /\ \A i \in 1..Len(ExpectedChain) : ~Contains(file, ExpectedChain[i][1])
       /\ ret_code # Zero

\* lines 66-108: some check of the chain names this file and another code
ChainFails(file, ret_code) ==
    \E i \in 1..Len(ExpectedChain) :
        /\ Contains(file, ExpectedChain[i][1])
        /\ ret_code # ToWide(ExpectedChain[i][2])

\* OSError not told apart from a wrong exit code
RunVerdictNoOSError(file, outcome, ret_code) ==
    IF outcome = "oserror" \/ ChainFails(file, ret_code)
    THEN "FAILED: Expected exit code"
    ELSE "PASSED"

\* lines 61-115
RunVerdict(file, outcome, ret_code) ==
    IF outcome = "oserror" THEN "FAILED: Execution"
    ELSE IF ChainFails(file, ret_code) THEN "FAILED: Expected exit code"
    ELSE "PASSED"

\* the value run_test returns after printing line
Returns(line) == line \in {"SKIPPED: ml not found in PATH", "PASSED"}

\* the comparison of line 145 turned round
ExitCodeAsmSwapped(p, t) == IF p > t THEN 1 ELSE 0

\* lines 145-146, and the status 0 of a script that runs off its end
ExitCodeAsm(p, t) == IF p < t THEN 1 ELSE 0

\* the code the chain expects of a file, 0 for a file it does not name
ChainCode(file) ==
    IF \E i \in 1..Len(ExpectedChain) : Contains(file, ExpectedChain[i][1])
    THEN ExpectedChain[CHOOSE i \in 1..Len(ExpectedChain) :
                           Contains(file, ExpectedChain[i][1])][2]
    ELSE 0

\* line 141 left out: every call that returns is counted in passed
ReturnCountsAll(line) ==
    /\ log' = Append(log, Entry(c_file, line, Returns(line)))
    /\ passed' = passed + 1
    /\ pc' = "loop"

\* run_test prints line and returns; lines 141-142 count the result
Return(line) ==
    /\ log' = Append(log, Entry(c_file, line, Returns(line)))
    /\ passed' = IF Returns(line) THEN passed + 1 ELSE passed
    /\ pc' = "loop"

\* an exception nothing catches: traceback, exit status 1
Raise ==
    /\ exitStatus' = <<1>>
    /\ pc' = "exited"
    /\ UNCHANGED <<log, passed>>

\* lines 127-129 without the check
StartAsmUnchecked ==
    /\ harness = "asm"
    /\ pc = "start"
    /\ environ' = Bootstrap(vcvarsExists, output, environ)
    /\ pc' = "loop"
    /\ passed' = 0
    /\ total' = 0
    /\ UNCHANGED <<harness, vcvarsExists, output, compilerPresent, assemblerPresent, linkerPresent,
                   tests, idx, fs, stages, res, actual_code, results, log,
                   summary, exitStatus>>

\* lines 119-133
StartAsm ==
    /\ harness = "asm"
    /\ pc = "start"
    /\ environ' = Bootstrap(vcvarsExists, output, environ)
    /\ IF ~compilerPresent
       THEN /\ exitStatus' = <<1>>
            /\ pc' = "exited"
            /\ UNCHANGED <<passed, total>>
       ELSE /\ pc' = "loop"
            /\ passed' = 0
            /\ total' = 0
            /\ UNCHANGED exitStatus
    /\ UNCHANGED <<harness, vcvarsExists, output, compilerPresent, assemblerPresent, linkerPresent,
                   tests, idx, fs, stages, res, actual_code, results, log,
                   summary>>

\* line 139 left out: every file glob found is counted and tested
LoopAsmUnfiltered ==
    /\ harness = "asm"
    /\ pc = "loop"
    /\ \/ /\ idx < Len(tests)
          /\ idx' = idx + 1
          /\ total' = total + 1
          /\ stages' = <<>>
          /\ fs' \in SUBSET CompilerWrites
          /\ pc' = "compile"
       \/ /\ idx = Len(tests)
          /\ pc' = "summary"
          /\ UNCHANGED <<idx, total, stages, fs>>
    /\ UNCHANGED <<harness, vcvarsExists, output, environ, compilerPresent, assemblerPresent, linkerPresent,
                   tests, res, actual_code, results, passed, log, summary,
                   exitStatus>>

\* lines 138-140 and 12-16: the for statement takes the next file, ignores
\* it or counts it and enters run_test, or leaves the loop.
\* fs becomes what is on disk of this file's artifacts before its stages run.
LoopAsm ==
    /\ harness = "asm"
    /\ pc = "loop"
    /\ \/ /\ idx < Len(tests)
          /\ Basename(tests[idx + 1]) \in test_whitelist
          /\ idx' = idx + 1
          /\ total' = total + 1
          /\ stages' = <<>>
          /\ fs' \in SUBSET CompilerWrites
          /\ pc' = "compile"
       \/ /\ idx < Len(tests)
          /\ Basename(tests[idx + 1]) \notin test_whitelist
          /\ idx' = idx + 1
          /\ stages' = <<>>
          /\ fs' = {}
          /\ UNCHANGED <<total, pc>>
       \/ /\ idx = Len(tests)
          /\ pc' = "summary"
          /\ UNCHANGED <<idx, total, stages, fs>>
    /\ UNCHANGED <<harness, vcvarsExists, output, environ, compilerPresent, assemblerPresent, linkerPresent,
                   tests, res, actual_code, results, passed, log, summary,
                   exitStatus>>

\* the .asm file of an earlier run removed before the compiler is run
CompileAsmFresh ==
    /\ harness = "asm"
    /\ pc = "compile"
    /\ \E status \in ToolStatuses, written \in SUBSET CompilerWrites :
          LET verdict == CompileVerdictAsm(status, "asm" \in written)
          IN  /\ res' = status
              /\ fs' = (fs \ {"asm"}) \cup written
              /\ stages' = Append(stages, Stage("Compile", Outcome(status)))
              /\ IF verdict = "ok"
                 THEN /\ pc' = "assemble"
                      /\ UNCHANGED <<log, passed>>
                 ELSE Return(verdict)
    /\ UNCHANGED <<harness, vcvarsExists, output, environ, compilerPresent, assemblerPresent, linkerPresent,
                   tests, idx, actual_code, results, total, summary,
                   exitStatus>>

\* lines 18-36
CompileAsm ==
    /\ harness = "asm"
    /\ pc = "compile"
    /\ \E status \in ToolStatuses, written \in SUBSET CompilerWrites :
          LET verdict == CompileVerdictAsm(status, "asm" \in fs \cup written)
          IN  /\ res' = status
              /\ fs' = fs \cup written
              /\ stages' = Append(stages, Stage("Compile", Outcome(status)))
              /\ IF verdict = "ok"
                 THEN /\ pc' = "assemble"
                      /\ UNCHANGED <<log, passed>>
                 ELSE Return(verdict)
    /\ UNCHANGED <<harness, vcvarsExists, output, environ, compilerPresent, assemblerPresent, linkerPresent,
                   tests, idx, actual_code, results, total, summary,
                   exitStatus>>

\* lines 38-48
AssembleAsm ==
    /\ harness = "asm"
    /\ pc = "assemble"
    /\ \E status \in ToolStatuses, written \in SUBSET {"obj"} :
          LET outcome == IF assemblerPresent THEN Outcome(status) ELSE "notfound"
              verdict == AssembleVerdict(outcome)
          IN  /\ res' = IF assemblerPresent THEN status ELSE res
              /\ fs' = IF assemblerPresent THEN fs \cup written ELSE fs
              /\ stages' = Append(stages, Stage("Assemble", outcome))
              /\ IF verdict = "ok"
                 THEN /\ pc' = "link"
                      /\ UNCHANGED <<log, passed>>
                 ELSE Return(verdict)
    /\ UNCHANGED <<harness, vcvarsExists, output, environ, compilerPresent, assemblerPresent, linkerPresent,
                   tests, idx, actual_code, results, total, summary,
                   exitStatus>>

\* lines 50-58
LinkAsm ==
    /\ harness = "asm"
    /\ pc = "link"
    /\ \E status \in ToolStatuses, written \in SUBSET {"exe"} :
          LET outcome == IF linkerPresent THEN Outcome(status) ELSE "notfound"
              verdict == LinkVerdict(outcome)
          IN  /\ res' = IF linkerPresent THEN status ELSE res
              /\ fs' = IF linkerPresent THEN fs \cup written ELSE fs
              /\ stages' = Append(stages, Stage("Link", outcome))
              /\ CASE verdict = "ok" ->
                        /\ pc' = "run"
                        /\ UNCHANGED <<log, passed, exitStatus>>
                   [] verdict = "Traceback: FileNotFoundError" -> Raise
                   [] OTHER ->
                        /\ Return(verdict)
                        /\ UNCHANGED exitStatus
    /\ UNCHANGED <<harness, vcvarsExists, output, environ, compilerPresent, assemblerPresent, linkerPresent,
                   tests, idx, actual_code, results, total, summary>>

\* lines 60-115: the executable is started directly; a missing file, a file
\* that is no executable or one that may not be run raises OSError
RunAsm ==
    /\ harness = "asm"
    /\ pc = "run"
    /\ \E launch \in (IF "exe" \in fs THEN {"ran", "oserror"} ELSE {"oserror"}) :
       \E status \in (IF launch = "ran" THEN ExitStatuses(ChainCode(c_file))
                                        ELSE {res}) :
          /\ res' = status
          /\ stages' = Append(stages, Stage("Execute", launch))
          /\ Return(RunVerdict(c_file, launch, status))
    /\ UNCHANGED <<harness, vcvarsExists, output, environ, compilerPresent, assemblerPresent, linkerPresent,
                   tests, idx, fs, actual_code, results, total, summary,
                   exitStatus>>

\* lines 144-146
SummaryAsm ==
    /\ harness = "asm"
    /\ pc = "summary"
    /\ summary' = TRUE
    /\ exitStatus' = <<ExitCodeAsm(passed, total)>>
    /\ pc' = "exited"
    /\ UNCHANGED <<harness, vcvarsExists, output, environ, compilerPresent, assemblerPresent, linkerPresent,
                   tests, idx, fs, stages, res, actual_code, results, passed,
                   total, log>>

-----------------------------------------------------------------------------

\* a step of a single run that is followed no further: no file and no
\* tool's answer is kept for a second run
Quiet == UNCHANGED <<run, first, artifacts, memo>>

Next ==
    \/ StartCoff /\ Quiet
    \/ LoopCoff /\ Quiet
    \/ CompileCoff /\ Quiet
    \/ ExecuteCoff /\ Quiet
    \/ SummaryCoff /\ Quiet
    \/ StartAsm /\ Quiet
    \/ LoopAsm /\ Quiet
    \/ CompileAsm /\ Quiet
    \/ AssembleAsm /\ Quiet
    \/ LinkAsm /\ Quiet
    \/ RunAsm /\ Quiet
    \/ SummaryAsm /\ Quiet

Spec == Init /\ [][Next]_vars

-----------------------------------------------------------------------------
(* The start-up of both scripts over every bootstrap output and every      *)
(* starting environment within the bounds.                                 *)

InitEnv ==
    /\ harness \in {"coff", "asm"}
    /\ vcvarsExists \in BOOLEAN
    /\ output \in Outputs
    /\ environ \in Environs
    /\ compilerPresent \in BOOLEAN
    /\ assemblerPresent = TRUE
    /\ linkerPresent = TRUE
    /\ tests = (IF harness = "coff" THEN SubSeq(CoffTests, 1, 1)
                                    ELSE SubSeq(TestsDir, 1, 1))
    /\ Fresh
    /\ run = 1
    /\ first = NoReport
    /\ artifacts = [i \in 1..Len(tests) |-> NoFiles]
    /\ memo = [i \in 1..Len(tests) |-> [k \in StageKinds |-> NoAnswer]]

NextEnv ==
    \/ StartCoff /\ Quiet
    \/ StartAsm /\ Quiet

SpecEnv == InitEnv /\ [][NextEnv]_vars

-----------------------------------------------------------------------------
(* The script run twice in succession over the same sources with the same  *)
(* tools.  The second run finds the files the first one left, and a tool   *)
(* given the input it was given in the first run answers as it did then:   *)
(* same status, same files written.                                        *)

\* the files of a test that exist
Present(files) == {e \in Exts : files[e] # "none"}

\* the files a tool may write
Writes(kind) ==
    CASE kind = "Compile" -> CompilerWrites
      [] kind = "Assemble" -> {"obj"}
      [] kind = "Link" -> {"exe"}
      [] OTHER -> {}

\* what a tool reads: the compiler the source, which never changes, every
\* other tool the file the stage before it is to have made
InputOf(kind, files) ==
    CASE kind = "Compile" -> "source"
      [] kind = "Assemble" -> files["asm"]
      [] kind = "Link" -> files["obj"]
      [] OTHER -> files["exe"]

SameRun == UNCHANGED <<run, first>>

\* the loop takes a file: the first run finds whatever was there before it,
\* the second run what the first run left
FindFiles ==
    /\ SameRun
    /\ UNCHANGED memo
    /\ IF pc' # "compile" THEN UNCHANGED artifacts
       ELSE IF run = 1
       THEN artifacts' = [artifacts EXCEPT ![idx'] =
                [e \in Exts |-> IF e \in fs' THEN "stale" ELSE "none"]]
       ELSE /\ fs' = Present(artifacts[idx'])
            /\ UNCHANGED artifacts

\* a tool was run: the files it wrote are its own now, files it may have
\* written over included; its answer is kept in the first run and met again
\* in the second one when its input is the same
Deterministic(kind) ==
    /\ SameRun
    /\ \E over \in SUBSET (IF Last(stages').outcome \in {"exit0", "nonzero"}
                           THEN fs \cap fs' \cap Writes(kind) ELSE {}) :
          LET wrote == (fs' \ fs) \cup over
              answer == [seen |-> TRUE,
                         input |-> InputOf(kind, artifacts[idx]),
                         outcome |-> Last(stages').outcome,
                         res |-> res',
                         wrote |-> wrote]
              before == memo[idx][kind]
          IN  /\ artifacts' = [artifacts EXCEPT ![idx] =
                    [e \in Exts |-> IF e \in wrote THEN kind
                                    ELSE IF e \in fs' THEN @[e]
                                    ELSE "none"]]
              /\ IF run = 1
                 THEN memo' = [memo EXCEPT ![idx][kind] = answer]
                 ELSE /\ UNCHANGED memo
                      /\ before.seen /\ before.input = answer.input
                            => answer = before

\* the script is started again once its first run is over
Restart ==
    /\ pc = "exited"
    /\ run = 1
    /\ run' = 2
    /\ first' = Report
    /\ environ' = ParentEnviron
    /\ pc' = "start"
    /\ idx' = 0
    /\ fs' = {}
    /\ stages' = <<>>
    /\ res' = Zero
    /\ actual_code' = Zero
    /\ results' = <<>>
    /\ passed' = 0
    /\ total' = 0
    /\ log' = <<>>
    /\ summary' = FALSE
    /\ exitStatus' = <<>>
    /\ UNCHANGED <<harness, vcvarsExists, output, compilerPresent,
                   assemblerPresent, linkerPresent, tests, artifacts, memo>>

InitTwice ==
    /\ harness \in {"coff", "asm"}
    /\ vcvarsExists = TRUE
    /\ output = << <<"A", "=">>, <<"A", "A", "=", "A">> >>
    /\ environ = ParentEnviron
    /\ compilerPresent \in BOOLEAN
    /\ assemblerPresent \in (IF harness = "asm" THEN BOOLEAN ELSE {TRUE})
    /\ linkerPresent \in (IF harness = "asm" THEN BOOLEAN ELSE {TRUE})
    /\ tests = (IF harness = "coff" THEN SubSeq(CoffTests, 1, 2)
                                    ELSE SubSeq(TestsDir, 5, 6))
    /\ Fresh
    /\ run = 1
    /\ first = NoReport
    /\ artifacts = [i \in 1..Len(tests) |-> NoFiles]
    /\ memo = [i \in 1..Len(tests) |-> [k \in StageKinds |-> NoAnswer]]

NextTwice ==
    \/ StartCoff /\ Quiet
    \/ LoopCoff /\ FindFiles
    \/ CompileCoff /\ Deterministic("Compile")
    \/ ExecuteCoff /\ Deterministic("Execute")
    \/ SummaryCoff /\ Quiet
    \/ StartAsm /\ Quiet
    \/ LoopAsm /\ FindFiles
    \/ CompileAsm /\ Deterministic("Compile")
    \/ AssembleAsm /\ Deterministic("Assemble")
    \/ LinkAsm /\ Deterministic("Link")
    \/ RunAsm /\ Deterministic("Execute")
    \/ SummaryAsm /\ Quiet
    \/ Restart

SpecTwice == InitTwice /\ [][NextTwice]_vars

-----------------------------------------------------------------------------
(* Vocabulary of the properties. *)

\* the value of x modulo 2^32, read as a two's-complement 32-bit number
Signed32(x) == <<((x[1] + 32768) % Limb) - 32768, x[2]>>

\* -2^31 <= x <= 2^31 - 1
InInt32(x) == x[1] >= -32768 /\ x[1] <= 32767 /\ x[2] >= 0 /\ x[2] < Limb

\* 0 <= x <= 2^32 - 1
InUInt32(x) == x[1] >= 0 /\ x[1] < Limb /\ x[2] >= 0 /\ x[2] < Limb

\* the last stage launched for the current test
LastStageIs(kind) == stages # <<>> /\ Last(stages).kind = kind

LastStageWas(kind, outcome) ==
    stages # <<>> /\ Last(stages) = Stage(kind, outcome)

Attempted(kind) == \E i \in 1..Len(stages) : stages[i].kind = kind

\* the current test has left its pipeline
TestOver == stages # <<>> /\ pc \in {"loop", "summary", "exited"}

IsListed(p) == Basename(p) \in test_whitelist

\* the tests a run is to process
Selected == IF harness = "coff" THEN tests ELSE SelectSeq(tests, IsListed)

Plan ==
    IF harness = "coff" THEN <<"Compile", "Execute">>
    ELSE <<"Compile", "Assemble", "Link", "Execute">>

FollowsPlan ==
    /\ Len(stages) <= Len(Plan)
    /\ Kinds(stages) = SubSeq(Plan, 1, Len(stages))

\* every selected test has a verdict and it is Pass (asm: Pass or Skip)
AllSelectedPassed ==
    IF harness = "coff"
    THEN /\ Len(results) = Len(tests)
         /\ \A i \in 1..Len(results) :
               /\ results[i][1] = Basename(tests[i][1])
               /\ results[i][2].kind = "PASS"
    ELSE /\ Len(log) = Len(Selected)
         /\ \A i \in 1..Len(log) :
               /\ log[i].file = Selected[i]
               /\ log[i].line \in {"PASSED", "SKIPPED: ml not found in PATH"}

\* every selected test has a verdict
AllSelectedProcessed ==
    IF harness = "coff" THEN Len(results) = Len(tests)
                        ELSE Len(log) = Len(Selected)

StartupAbort == harness = "asm" /\ ~compilerPresent

-----------------------------------------------------------------------------
(* C1: in verify_coff, once a test's executable has been run, the test is   *)
(* recorded as PASS exactly when its raw status, taken modulo 2^32 and read *)
(* as a signed 32-bit number, is the expected code, and as FAIL (Got N)     *)
(* otherwise; with expected code 0 every non-zero status is a FAIL.         *)
C1_PassIffNormalizedEqualsExpected ==
    (harness = "coff" /\ LastStageWas("Execute", "ran")) =>
        /\ results # <<>>
        /\ Last(results)[1] = name
        /\ Last(results)[2].kind \in {"PASS", "FAIL (Got)"}
        /\ (Last(results)[2].kind = "PASS"
              <=> Signed32(res) = ToWide(expected_code))
        /\ (expected_code = 0 /\ Signed32(res) # Zero
              => Last(results)[2].kind = "FAIL (Got)")

C1_Witness ==
    /\ harness = "coff"
    /\ LastStageWas("Execute", "ran")
    /\ res = <<49152, 5>>
    /\ expected_code = 0
    /\ Last(results)[2].kind = "FAIL (Got)"

(* C2: the normalised exit code lies in [-2^31, 2^31 - 1] for every raw    *)
(* status in the unsigned 32-bit range, and equals the raw status whenever *)
(* that already lies in the signed 32-bit range, negative values included. *)
C2_NormalizeInRangeAndIdentity ==
    (harness = "coff" /\ LastStageIs("Execute")) =>
        /\ (InUInt32(res) => InInt32(actual_code))
        /\ (InInt32(res) => actual_code = res)

C2_Witness ==
    /\ harness = "coff"
    /\ LastStageIs("Execute")
    /\ res = <<65535, 65535>>
    /\ actual_code = <<-1, 65535>>

(* C3: with the assembler not to be found, neither link nor execute is     *)
(* attempted, no run_test call ends in a failure other than the missing    *)
(* .asm file, and every test whose compile stage left its .asm file ends   *)
(* as SKIPPED, run_test returning True and the test counted in passed.     *)
C3_AssemblerMissingSkips ==
    (harness = "asm" /\ ~assemblerPresent) =>
        /\ ~Attempted("Link") /\ ~Attempted("Execute")
        /\ \A i \in 1..Len(log) :
              /\ log[i].line \in {"FAILED: ASM file not created",
                                  "SKIPPED: ml not found in PATH"}
              /\ log[i].ret = (log[i].line = "SKIPPED: ml not found in PATH")
        /\ passed = Cardinality({i \in 1..Len(log) : log[i].ret})
        /\ (TestOver /\ "asm" \in fs =>
              /\ stages = <<Stage("Compile", stages[1].outcome),
                            Stage("Assemble", "notfound")>>
              /\ Last(log) = Entry(c_file, "SKIPPED: ml not found in PATH", TRUE))

C3_Witness ==
    /\ harness = "asm"
    /\ ~assemblerPresent
    /\ TestOver
    /\ LastStageWas("Assemble", "notfound")
    /\ Last(log).line = "SKIPPED: ml not found in PATH"
    /\ passed = 2

(* C4: a linker that cannot be found turns the test into a Skip: run_test  *)
(* returns True for it, the run goes on, and an exit comes only after the  *)
(* summary.                                                                *)
C4_LinkerMissingSkips ==
    (harness = "asm" /\ LastStageWas("Link", "notfound")) =>
        /\ pc \in {"loop", "summary", "exited"}
        /\ pc = "exited" => summary
        /\ log # <<>>
        /\ Last(log).file = c_file
        /\ Last(log).ret

(* C5: in test_asm_execution the compile stage succeeds exactly when the   *)
(* .asm file is present afterwards, whatever the compiler's exit status,   *)
(* and the pipeline then goes on to the assembler; in verify_coff a        *)
(* non-zero compiler status is FAIL (Comp) whether or not the executable   *)
(* is present.                                                             *)
C5_CompileVerdictPerHarness ==
    Len(stages) = 1 =>
        IF harness = "asm"
        THEN /\ "asm" \in fs => pc = "assemble"
             /\ "asm" \notin fs =>
                   /\ pc # "assemble"
                   /\ Last(log) = Entry(c_file, "FAILED: ASM file not created", FALSE)
        ELSE res # Zero =>
                   /\ pc # "run"
                   /\ Last(results) = <<name, Status("FAIL (Comp)", Zero)>>

C5_Witness ==
    /\ harness = "asm"
    /\ stages = <<Stage("Compile", "nonzero")>>
    /\ "asm" \in fs
    /\ pc = "assemble"

\* C5 as stated: in both harnesses, once the compiler has run, the artifact
\* alone decides
C5_ArtifactDecidesInBoth ==
    (Len(stages) = 1 /\ stages[1].outcome \in {"exit0", "nonzero"}) =>
        IF harness = "asm" THEN (pc = "assemble" <=> "asm" \in fs)
                           ELSE (pc = "run" <=> "exe" \in fs)

(* C6: the stages of a test are launched in the order of the harness's     *)
(* plan (asm: Compile, Assemble, Link, Execute; coff: Compile, Execute),   *)
(* each at most once, and a stage is launched only after the one before    *)
(* it passed the harness's own test: the .asm file present after compile,  *)
(* exit status 0 of assembler and linker (asm); exit status 0 of the       *)
(* compiler and the .exe file present (coff).                              *)
C6_StagesInOrderGatedByHarnessTest ==
    /\ FollowsPlan
    /\ IF harness = "asm"
       THEN /\ Len(stages) >= 2 => "asm" \in fs
            /\ Len(stages) >= 3 => stages[2].outcome = "exit0"
            /\ Len(stages) >= 4 => stages[3].outcome = "exit0"
       ELSE Len(stages) >= 2 => stages[1].outcome = "exit0" /\ "exe" \in fs

C6_Witness ==
    /\ harness = "asm"
    /\ Len(stages) = 4
    /\ "obj" \notin fs
    /\ LastStageWas("Execute", "oserror")

\* C6 as stated: every later stage waits for the artifact of the one before
C6_StagesGatedByArtifacts ==
    /\ FollowsPlan
    /\ IF harness = "asm"
       THEN /\ Attempted("Assemble") => "asm" \in fs
            /\ Attempted("Link") => "obj" \in fs
            /\ Attempted("Execute") => "exe" \in fs
       ELSE Attempted("Execute") => "exe" \in fs

(* C7: the process exits with 0 or 1; it exits with 0 exactly when every   *)
(* selected test reached Pass (asm: Pass or Skip), zero selected tests     *)
(* included, except that test_asm_execution exits with 1 whenever the      *)
(* compiler is absent at start-up, whatever tests there are.               *)
C7_ExitStatusAmended ==
    pc = "exited" =>
        /\ exitStatus \in {<<0>>, <<1>>}
        /\ IF StartupAbort THEN exitStatus = <<1>>
           ELSE (exitStatus = <<0>> <=> AllSelectedPassed)

C7_Witness ==
    /\ pc = "exited"
    /\ harness = "asm"
    /\ exitStatus = <<0>>
    /\ Len(Selected) = 2
    /\ Last(log).line = "PASSED"

\* C7 as stated
C7_ExitZeroIffAllPassed ==
    pc = "exited" =>
        /\ exitStatus \in {<<0>>, <<1>>}
        /\ (exitStatus = <<0>> <=> AllSelectedPassed)

(* C8: apart from the compiler missing at start-up, nothing ends the run   *)
(* early: the process exits only after every selected test has its verdict *)
(* and the summary is printed, and until then a step is always possible.   *)
C8_RunAlwaysCompletes ==
    /\ (pc = "exited" /\ ~StartupAbort) => summary /\ AllSelectedProcessed
    /\ pc # "exited" => ENABLED Next

(* C9: with the compiler absent, test_asm_execution exits with status 1    *)
(* in its first step, no stage launched, no file counted, no verdict       *)
(* recorded; verify_coff has no such check: it launches the compile        *)
(* command of every test, records FAIL (Comp) for each, runs no            *)
(* executable, prints the summary and exits with status 1.                 *)
C9_CompilerAbsent ==
    ~compilerPresent =>
        IF harness = "asm"
        THEN /\ stages = <<>> /\ log = <<>> /\ total = 0 /\ idx = 0
             /\ pc \in {"start", "exited"}
             /\ pc = "exited" => exitStatus = <<1>> /\ ~summary
        ELSE /\ ~Attempted("Execute")
             /\ \A i \in 1..Len(results) :
                   results[i] = <<Basename(tests[i][1]), Status("FAIL (Comp)", Zero)>>
             /\ pc = "exited" =>
                   /\ exitStatus = <<1>> /\ summary
                   /\ Len(results) = Len(tests)

C9_Witness ==
    /\ ~compilerPresent
    /\ harness = "asm"
    /\ pc = "exited"
    /\ Len(Selected) = 2

\* C9 as stated: in both harnesses no stage runs and no result is recorded
C9_AbortsBeforeAnyTest ==
    ~compilerPresent =>
        /\ stages = <<>> /\ results = <<>> /\ log = <<>>
        /\ pc = "exited" => exitStatus = <<1>>

(* C10: in test_asm_execution an OS error on starting the executable ends  *)
(* the test with "FAILED: Execution", never with the exit-code failure and *)
(* never with PASSED; in verify_coff the executable is started through the *)
(* shell, whose non-zero status is normalised and compared like a          *)
(* program's: the test is recorded as FAIL (Got N), N being that status,   *)
(* unless N is the expected code.                                          *)
C10_LaunchErrorPerHarness ==
    LastStageWas("Execute", "oserror") =>
        IF harness = "asm"
        THEN Last(log) = Entry(c_file, "FAILED: Execution", FALSE)
        ELSE /\ res # Zero
             /\ Last(results) =
                   <<name, IF res = ToWide(expected_code)
                           THEN Status("PASS", Zero)
                           ELSE Status("FAIL (Got)", res)>>
             /\ expected_code = 0 => Last(results)[2].kind = "FAIL (Got)"

C10_Witness ==
    /\ harness = "asm"
    /\ LastStageWas("Execute", "oserror")
    /\ "exe" \in fs
    /\ Last(log).line = "FAILED: Execution"

\* C10 as stated: in both harnesses a launch error is neither a mismatch
\* nor a pass
C10_LaunchErrorDistinctInBoth ==
    LastStageWas("Execute", "oserror") =>
        IF harness = "asm"
        THEN Last(log).line \notin {"FAILED: Expected exit code", "PASSED"}
        ELSE Last(results)[2].kind \notin {"FAIL (Got)", "PASS"}

\* asm: a run_test call has started and has not returned
InFlight ==
    /\ harness = "asm"
    /\ \/ pc \in {"compile", "assemble", "link", "run"}
       \/ pc = "exited" /\ ~summary /\ stages # <<>>

\* asm: the files run_test has been called with, in the order of the calls
Called ==
    [i \in 1..Len(log) |-> log[i].file] \o (IF InFlight THEN <<c_file>> ELSE <<>>)

(* C11: in test_asm_execution the files run_test has been called with are  *)
(* exactly the allow-listed ones among the discovered files the loop has   *)
(* taken so far, in discovery order, and total counts them; when the       *)
(* summary is printed they are all the allow-listed discovered files.  A   *)
(* discovered file outside the allow-list and an allow-listed name that    *)
(* was not discovered have no call, no count and no verdict.               *)
C11_RunsListedDiscoveredInOrder ==
    harness = "asm" =>
        /\ Called = SelectSeq(SubSeq(tests, 1, idx), IsListed)
        /\ total = Len(Called)
        /\ passed <= Len(log)
        /\ \A i \in 1..Len(log) :
              /\ \E j \in 1..idx : tests[j] = log[i].file
              /\ Basename(log[i].file) \in test_whitelist
        /\ summary => Called = Selected /\ idx = Len(tests)

C11_Witness ==
    /\ harness = "asm"
    /\ summary
    /\ Len(tests) = 2
    /\ ~IsListed(tests[1])
    /\ Called = <<tests[2]>>
    /\ total = 1

\* coff: the number of tests whose loop body has ended
Processed == IF pc \in {"compile", "run"} THEN idx - 1 ELSE idx

(* C12: in verify_coff, after the first k tests have been processed,       *)
(* results has length k and its i-th entry names the i-th test and holds   *)
(* one of the four statuses, whichever branch each test took; the summary  *)
(* is printed from one entry per test of the list.                         *)
C12_ResultsOnePerTestInOrder ==
    harness = "coff" =>
        /\ Len(results) = Processed
        /\ \A i \in 1..Len(results) :
              /\ results[i][1] = Basename(tests[i][1])
              /\ results[i][2].kind \in
                    {"FAIL (Comp)", "FAIL (EXE missing)", "PASS", "FAIL (Got)"}
        /\ summary => Len(results) = Len(tests)

C12_Witness ==
    /\ harness = "coff"
    /\ summary
    /\ Len(results) = 2
    /\ results[1][2].kind = "FAIL (EXE missing)"
    /\ results[2][2].kind = "PASS"

\* the file the compile stage of the harness is to leave on disk
CompileArtifact == IF harness = "coff" THEN "exe" ELSE "asm"

(* C13: when the compile stage has run and its expected file (the .asm     *)
(* file in test_asm_execution, the executable in verify_coff) is not on    *)
(* disk afterwards, the test ends as a failure (run_test returns False     *)
(* after "FAILED: ASM file ... not created"; FAIL (Comp) or FAIL (EXE      *)
(* missing) in results), never as Pass or Skip, and no later stage is      *)
(* launched for it.                                                        *)
C13_MissingArtifactFails ==
    (stages # <<>> /\ CompileArtifact \notin fs) =>
        /\ Len(stages) = 1
        /\ pc \in {"loop", "summary", "exited"}
        /\ IF harness = "asm"
           THEN /\ Last(log) = Entry(c_file, "FAILED: ASM file not created", FALSE)
                /\ passed = Cardinality({i \in 1..Len(log) : log[i].ret})
           ELSE /\ Last(results)[1] = name
                /\ Last(results)[2].kind \in {"FAIL (Comp)", "FAIL (EXE missing)"}
                /\ Len(results) = idx
                /\ pc = "exited" => exitStatus = <<1>>

C13_Witness ==
    /\ harness = "coff"
    /\ stages = <<Stage("Compile", "exit0")>>
    /\ "exe" \notin fs
    /\ Last(results)[2].kind = "FAIL (EXE missing)"

(* C14: when the assembler or the linker has started and ended with a      *)
(* non-zero status, that is the last stage of the test: run_test prints    *)
(* its FAILED line and returns False, the test is not counted in passed,   *)
(* and neither link nor execute follows.                                   *)
C14_NonZeroToolExitFails ==
    \A i \in 1..Len(stages) :
        (harness = "asm" /\ stages[i].kind \in {"Assemble", "Link"}
                         /\ stages[i].outcome = "nonzero") =>
            /\ i = Len(stages)
            /\ pc \in {"loop", "summary", "exited"}
            /\ Last(log) = Entry(c_file,
                                 IF stages[i].kind = "Assemble"
                                 THEN "FAILED: Assembly" ELSE "FAILED: Linking",
                                 FALSE)
            /\ passed = Cardinality({j \in 1..Len(log) : log[j].ret})
            /\ passed < total

C14_Witness ==
    /\ harness = "asm"
    /\ LastStageWas("Link", "nonzero")
    /\ Last(log).line = "FAILED: Linking"
    /\ total = 2
    /\ passed = 1

C17_CountersInvariant ==
    harness = "asm" =>
        /\ 0 <= passed /\ passed <= total /\ total <= Len(tests)
        /\ total = Len(Called)
        /\ passed = Cardinality({i \in 1..Len(log) : log[i].ret})

C17_CountersStep ==
    harness = "asm" =>
        /\ total' \in {total, total + 1}
        /\ passed' \in {passed, passed + 1}
        /\ total' = total + 1 => idx' = idx + 1 /\ passed' = passed
        /\ passed' = passed + 1 =>
              /\ idx' = idx /\ total' = total
              /\ log' = Append(log, Entry(c_file, Last(log').line, TRUE))

(* C17: in test_asm_execution, at every point of the run                   *)
(* 0 <= passed <= total <= number of discovered files, total is the number *)
(* of allow-listed files whose run_test call has started and passed the    *)
(* number of those calls that returned True; a step leaves each counter    *)
(* unchanged or adds 1 to it: total when the loop takes the next file,     *)
(* passed when the call for the current file returns True.                 *)
C17_CountersBoundedAndMonotone ==
    [](C17_CountersInvariant) /\ [][C17_CountersStep]_vars

C17_Witness ==
    /\ harness = "asm"
    /\ pc = "summary"
    /\ Len(tests) = 2
    /\ total = 2
    /\ passed = 1

\* the allow-listed sources whose exit code run_test compares
ComparedStems ==
    {"01_return", "07_function", "17_for", "18_typedef", "19_array",
     "20_switch", "21_enum", "22_union", "23_pointer_math"}

(* C18: in test_asm_execution, once compile, assemble and link have        *)
(* succeeded and the executable has run, a test whose path holds none of   *)
(* the hard-coded substrings (11_nested_struct.c) ends as PASSED whatever  *)
(* its exit status, crash statuses included; for the other allow-listed    *)
(* tests it ends as PASSED exactly when the status is the code hard-coded  *)
(* for it.                                                                 *)
C18_UncomparedTestAlwaysPasses ==
    (harness = "asm" /\ LastStageWas("Execute", "ran")) =>
        /\ Last(log).file = c_file
        /\ Last(log).line \in {"PASSED", "FAILED: Expected exit code"}
        /\ c_file.stem \notin ComparedStems => Last(log) = Entry(c_file, "PASSED", TRUE)
        /\ c_file.stem \in ComparedStems =>
              (Last(log).line = "PASSED" <=> res = ToWide(ChainCode(c_file)))

C18_Witness ==
    /\ harness = "asm"
    /\ LastStageWas("Execute", "ran")
    /\ c_file.stem = "11_nested_struct"
    /\ res = <<49152, 5>>
    /\ Last(log).line = "PASSED"

-----------------------------------------------------------------------------
(* C16 *)

\* the line is key, "=", value, and key holds no "="
Reports(line, key, value) ==
    /\ line = key \o <<"=">> \o value
    /\ \A i \in 1..Len(key) : key[i] # "="

\* the keys some line of the output reports
ReportedKeys(lines) ==
    {SubSeq(lines[i], 1, p - 1) :
        <<i, p>> \in {<<j, q>> \in (1..Len(lines)) \X (1..MaxLineLen + 1) :
            /\ q <= Len(lines[j])
            /\ lines[j][q] = "="
            /\ \A r \in 1..(q - 1) : lines[j][r] # "="}}

\* line i is the last line of the output that reports key, and reports value
LastReport(lines, i, key, value) ==
    /\ Reports(lines[i], key, value)
    /\ \A j \in (i + 1)..Len(lines) :
          ~(\E v \in Strings(Chars, Len(lines[j])) : Reports(lines[j], key, v))

\* what start-up does to os.environ
C16_BootstrapStep ==
    pc = "start" /\ pc' # "start" =>
       /\ ~vcvarsExists => environ' = environ
       /\ vcvarsExists =>
             /\ DOMAIN environ' = DOMAIN environ \cup ReportedKeys(output)
             /\ \A key \in DOMAIN environ' :
                   IF key \in ReportedKeys(output)
                   THEN \E i \in 1..Len(output) :
                           LastReport(output, i, key, environ'[key])
                   ELSE environ'[key] = environ[key]

\* C16: when the bootstrap command path does not exist start-up leaves the
\* environment unchanged; otherwise every output line holding "=" sets the
\* key before its first "=" to the rest of the line, the last line winning
\* for a key reported on several lines, and lines without "=" and keys no
\* line reports leave the environment as it was.
C16_BootstrapMergesOutput == [][C16_BootstrapStep]_vars

\* start-up has merged an output that reports the key "A" twice, with a
\* value holding "=" first and another value last, next to a line without
\* "=", into an environment that had "A" and another key set
C16_Witness ==
    /\ pc # "start"
    /\ vcvarsExists
    /\ output = << <<"A", "=", "=">>, <<"A", "=">> >>
    /\ DOMAIN environ = {<<"A">>, <<"A", "A">>}
    /\ environ[<<"A">>] = <<>>
    /\ environ[<<"A", "A">>] = <<"A">>

-----------------------------------------------------------------------------
(* C15 *)

\* C15: with tools that answer the same input the same way, a second run
\* started on the files the first run left ends with the verdicts, in
\* order, the pass and total counts and the exit status of the first run.
C15_SecondRunReportsAsFirst ==
    run = 2 /\ pc = "exited" => Report = first

\* a second run of verify_coff is over: the first test passed on an
\* executable older than both runs, the second failed on its exit code
C15_Witness ==
    /\ run = 2
    /\ pc = "exited"
    /\ harness = "coff"
    /\ Len(results) = 2
    /\ results[1][2].kind = "PASS"
    /\ results[2][2].kind = "FAIL (Got)"
    /\ artifacts[1]["exe"] = "stale"
    /\ exitStatus = <<1>>

-----------------------------------------------------------------------------
(* C19 *)

\* what a step of a test's pipeline does about the files left from before
C19_Step ==
    /\ pc \in {"compile", "assemble", "link", "run"} => fs \subseteq fs'
    /\ harness = "asm" /\ pc = "compile" /\ "asm" \in fs => pc' = "assemble"
    /\ harness = "coff" /\ pc = "compile" /\ "exe" \in fs /\ res' = Zero
          => pc' = "run"
    /\ harness = "coff" /\ pc = "run" =>
          /\ Len(results') = Len(results) + 1
          /\ Last(results')[1] = name
          /\ Last(results')[2].kind \in {"PASS", "FAIL (Got)"}

\* C19: no stage removes a file of the test, so a file left from before the
\* run counts as the stage's output: in test_asm_execution an .asm file
\* that is already there makes the compile stage succeed whatever the
\* compiler does, and in verify_coff an .exe file that is already there is
\* run and judged whenever the compiler exits 0.
C19_StaleArtifactAccepted == [][C19_Step]_vars

\* verify_coff has run and judged an executable from before the first run:
\* the compiler exited 0 and wrote nothing
C19_Witness ==
    /\ harness = "coff"
    /\ run = 1
    /\ idx >= 1
    /\ LastStageIs("Execute")
    /\ stages[1].outcome = "exit0"
    /\ memo[idx]["Compile"].wrote = {}
    /\ artifacts[idx]["exe"] = "stale"
    /\ Len(results) = idx

====
